---- MODULE Spec2Model ----
(***************************************************************************)
(* Model of Task_2_Valuation_service/main.py: the CSV valuation script.    *)
(*                                                                         *)
(* The four CSV files are state (a file is absent, or holds typed rows);   *)
(* the script's variables currencies, data, matchings, results and the     *)
(* locals of calculate_valuation are state; pc is the position of the      *)
(* single thread of control.  An uncaught exception ends the run: pc       *)
(* becomes "terminated" and err names the exception.                       *)
(*                                                                         *)
(* Python floats are modelled as exact rationals [n, d] in lowest terms;   *)
(* csv text of a number is modelled by the number it parses to.            *)
(*                                                                         *)
(* Spec     : the load -> calculate -> save pipeline (lines 225-233) over  *)
(*            input files drawn from bounded sets.                         *)
(* SpecMain : the whole __main__ block (lines 220-236), which first        *)
(*            rewrites the input files with its fixture and finally runs   *)
(*            the unit tests.                                              *)
(***************************************************************************)
EXTENDS Integers, Sequences, FiniteSets, TLC

VARIABLES
    currencies_csv,          \* file currencies.csv
    data_csv,                \* file data.csv
    matchings_csv,           \* file matchings.csv
    top_products_csv,        \* file top_products.csv
    currencies,              \* __main__: dict currency -> ratio
    data,                    \* __main__: list of products
    matchings,               \* __main__: list of matchings
    results,                 \* __main__: value returned by calculate_valuation
    idx,                     \* calculate_valuation: position of the for loop
    valuation_results,       \* calculate_valuation: list being built
    products,                \* calculate_valuation: filtered, sorted group
    top_products,            \* calculate_valuation: products[:top_priced_count]
    ignored_products_count,  \* calculate_valuation local
    total_price,             \* calculate_valuation local
    avg_price,               \* calculate_valuation local
    pc,                      \* position of the thread of control
    err                      \* the uncaught exception, "None" when there is none

vars == <<currencies_csv, data_csv, matchings_csv, top_products_csv,
          currencies, data, matchings, results, idx, valuation_results,
          products, top_products, ignored_products_count, total_price,
          avg_price, pc, err>>

files == <<currencies_csv, data_csv, matchings_csv, top_products_csv>>
loaded == <<currencies, data, matchings>>
locals == <<idx, valuation_results, products, top_products,
            ignored_products_count, total_price, avg_price>>

----------------------------------------------------------------------------
\* Bounds of the generated input files.

MaxProducts == 2

\* <<price, quantity>>: extended prices 1, 2 and 2 (a tie of unlike prices).
PricedQuantities == { <<1, 1>>, <<1, 2>>, <<2, 1>> }
MatchingIds == {1, 2}
\* PLN is the base currency, GBP has a ratio, USD has none.
ProductCurrencies == {"PLN", "GBP", "USD"}
TopCounts == {0, 1, 2}

----------------------------------------------------------------------------
\* Float arithmetic, as exact rationals.

Abs(x) == IF x < 0 THEN -x ELSE x

RECURSIVE GCD(_, _)
GCD(a, b) == IF b = 0 THEN a ELSE GCD(b, a % b)

\* n / d, d # 0, in lowest terms with a positive denominator.
Frac(n, d) ==
    LET g == GCD(Abs(n), Abs(d))
        s == IF d < 0 THEN -1 ELSE 1
    IN  [n |-> (s * n) \div g, d |-> (s * d) \div g]

Float(i) == [n |-> i, d |-> 1]

FloatMul(x, y) == Frac(x.n * y.n, x.d * y.d)

----------------------------------------------------------------------------
\* Files.

BASE == "PLN"

Absent == [exists |-> FALSE, header |-> <<>>, rows |-> <<>>]

CsvFile(fieldnames, rows) == [exists |-> TRUE, header |-> fieldnames, rows |-> rows]

CurrencyFields == <<"currency", "ratio">>
DataFields == <<"id", "price", "currency", "quantity", "matching_id">>
MatchingFields == <<"matching_id", "top_priced_count">>
ResultFields == <<"matching_id", "total_price", "avg_price", "currency",
                  "ignored_products_count">>

Product(i, p, c, q, m) ==
    [id |-> i, price |-> p, currency |-> c, quantity |-> q, matching_id |-> m]

Matching(m, t) == [matching_id |-> m, top_priced_count |-> t]

Result(m, t, a, c, i) ==
    [matching_id |-> m, total_price |-> t, avg_price |-> a, currency |-> c,
     ignored_products_count |-> i]

\* The rows create_input_files writes.
FixtureCurrencies ==
    << [currency |-> "GBP", ratio |-> Frac(24, 10)],
       [currency |-> "EU",  ratio |-> Frac(21, 10)],
       [currency |-> "PLN", ratio |-> Frac(10, 10)] >>

FixtureData ==
    << Product(1, 1000, "GBP", 2, 3),
       Product(2, 1050, "EU",  1, 1),
       Product(3, 2000, "PLN", 1, 1),
       Product(4, 1750, "EU",  2, 2),
       Product(5, 1400, "EU",  4, 3),
       Product(6, 7000, "PLN", 3, 2),
       Product(7, 630,  "GBP", 5, 3),
       Product(8, 4000, "EU",  1, 3),
       Product(9, 1400, "GBP", 3, 1) >>

FixtureMatchings == << Matching(1, 2), Matching(2, 2), Matching(3, 3) >>

\* The rows test_save_results writes.
TestResults ==
    << Result(1, Float(6200),  Float(3100),  "GBP", 1),
       Result(2, Float(24500), Float(12250), "PLN", 0),
       Result(3, Float(12750), Float(4250),  "EU",  1) >>

----------------------------------------------------------------------------
\* The input files a run may find.

ProductChoices == PricedQuantities \X ProductCurrencies \X MatchingIds

\* Product rows with ids 1, 2, ... in file order.
DataRowsOfLen(n) ==
    { [i \in 1 .. n |-> Product(i, f[i][1][1], f[i][2], f[i][1][2], f[i][3])] :
        f \in [1 .. n -> ProductChoices] }

\* Matching rows: every matching_id at most once, in any order.
MatchingRowsOfLen(n) ==
    { [i \in 1 .. n |-> Matching(ids[i], tops[i])] :
        ids \in { f \in [1 .. n -> MatchingIds] :
                    \A i, j \in 1 .. n : f[i] = f[j] => i = j },
        tops \in [1 .. n -> TopCounts] }

FixtureFiles ==
    << CsvFile(CurrencyFields, FixtureCurrencies),
       CsvFile(DataFields, FixtureData),
       CsvFile(MatchingFields, FixtureMatchings) >>

\* Generated data and matchings beside the fixture's currencies.
GeneratedFiles ==
    { << FixtureFiles[1], CsvFile(DataFields, d), CsvFile(MatchingFields, m) >> :
        d \in UNION { DataRowsOfLen(n) : n \in 0 .. MaxProducts },
        m \in UNION { MatchingRowsOfLen(n) : n \in 0 .. Cardinality(MatchingIds) } }

\* The fixture's files with some of them missing.
MissingFiles ==
    { [i \in 1 .. 3 |-> IF i \in gone THEN Absent ELSE FixtureFiles[i]] :
        gone \in (SUBSET (1 .. 3)) \ {{}} }

\* <<currencies.csv, data.csv, matchings.csv>>
InputFiles == GeneratedFiles \cup {FixtureFiles} \cup MissingFiles

\* top_products.csv before the run: not there, or left by an earlier run.
OutputFiles == { Absent, CsvFile(ResultFields, TestResults) }

----------------------------------------------------------------------------
\* The loaders: csv rows to the script's values.

NoCurrencies == [c \in {} |-> Float(0)]

\* currencies[currency] = ratio, row after row: the last row of a code wins.
CurrencyDict(rows) ==
    LET codes == { rows[i].currency : i \in DOMAIN rows }
        last(c) == CHOOSE i \in DOMAIN rows :
                       /\ rows[i].currency = c
                       /\ \A j \in DOMAIN rows : rows[j].currency = c => j <= i
    IN  [c \in codes |-> rows[last(c)].ratio]

ProductList(rows) ==
    [i \in DOMAIN rows |->
        Product(rows[i].id, rows[i].price, rows[i].currency, rows[i].quantity,
                rows[i].matching_id)]

MatchingList(rows) ==
    [i \in DOMAIN rows |-> Matching(rows[i].matching_id, rows[i].top_priced_count)]

----------------------------------------------------------------------------
\* calculate_valuation, statement by statement.

ExtendedPrice(p) == p.price * p.quantity

\* [product for product in data if product['matching_id'] == matching_id]
Filter(d, matching_id) == SelectSeq(d, LAMBDA p : p.matching_id = matching_id)

\* InsertDesc with equal keys in reverse input order, as an ascending sort
\* followed by a reversal would leave them.
InsertDescUnstable(sorted, p) ==
    LET k == Cardinality({ i \in DOMAIN sorted :
                             ExtendedPrice(sorted[i]) > ExtendedPrice(p) })
    IN  SubSeq(sorted, 1, k) \o <<p>> \o SubSeq(sorted, k + 1, Len(sorted))

\* One step of the stable descending sort: p goes behind every element whose
\* key is at least its own.
InsertDesc(sorted, p) ==
    LET k == Cardinality({ i \in DOMAIN sorted :
                             ExtendedPrice(sorted[i]) >= ExtendedPrice(p) })
    IN  SubSeq(sorted, 1, k) \o <<p>> \o SubSeq(sorted, k + 1, Len(sorted))

\* list.sort(key=price * quantity, reverse=True): descending, and elements of
\* equal key keep their order.
RECURSIVE SortedDesc(_)
SortedDesc(s) ==
    IF s = <<>> THEN <<>>
    ELSE InsertDesc(SortedDesc(SubSeq(s, 1, Len(s) - 1)), s[Len(s)])

\* s[:n]
Slice(s, n) ==
    LET k == IF n >= 0
             THEN (IF n < Len(s) THEN n ELSE Len(s))
             ELSE (IF Len(s) + n > 0 THEN Len(s) + n ELSE 0)
    IN  SubSeq(s, 1, k)

RECURSIVE SumExtended(_)
SumExtended(s) ==
    IF s = <<>> THEN 0 ELSE ExtendedPrice(s[1]) + SumExtended(Tail(s))

\* SelectProducts sorting data itself before filtering it.
SelectProductsInPlace(d, matching) ==
    LET ps == Filter(SortedDesc(d), matching.matching_id)
    IN  [data |-> SortedDesc(d),
         products |-> ps,
         top_products |-> Slice(ps, matching.top_priced_count),
         ignored_products_count |-> Len(ps) - matching.top_priced_count]

\* Lines 106-109: the effect on data and on the locals.
SelectProducts(d, matching) ==
    LET ps == SortedDesc(Filter(d, matching.matching_id))
    IN  [data |-> d,
         products |-> ps,
         top_products |-> Slice(ps, matching.top_priced_count),
         ignored_products_count |-> Len(ps) - matching.top_priced_count]

\* Lines 111-112.
Aggregate(top, top_priced_count) ==
    LET total == SumExtended(top)
    IN  IF top_priced_count = 0
        THEN [raised |-> "ZeroDivisionError",
              total_price |-> Float(total), avg_price |-> Float(0)]
        ELSE [raised |-> "None",
              total_price |-> Float(total),
              avg_price |-> Frac(total, top_priced_count)]

\* Convert taking the currency of the last top product, not the first.
ConvertByLast(top, total, avg, table) ==
    LET keep(e, c) == [raised |-> e, total_price |-> total, avg_price |-> avg,
                       currency |-> c]
    IN  IF top = <<>> THEN keep("IndexError", "")
        ELSE LET currency == top[Len(top)].currency
             IN  IF currency # BASE
                 THEN IF currency \notin DOMAIN table
                      THEN keep("KeyError", currency)
                      ELSE [raised |-> "None",
                            total_price |-> FloatMul(total, table[currency]),
                            avg_price |-> FloatMul(avg, table[currency]),
                            currency |-> BASE]
                 ELSE keep("None", currency)

\* Convert answering an empty top set with the base currency.
ConvertEmptyAsBase(top, total, avg, table) ==
    LET keep(e, c) == [raised |-> e, total_price |-> total, avg_price |-> avg,
                       currency |-> c]
    IN  IF top = <<>> THEN keep("None", BASE)
        ELSE LET currency == top[1].currency
             IN  IF currency # BASE
                 THEN IF currency \notin DOMAIN table
                      THEN keep("KeyError", currency)
                      ELSE [raised |-> "None",
                            total_price |-> FloatMul(total, table[currency]),
                            avg_price |-> FloatMul(avg, table[currency]),
                            currency |-> BASE]
                 ELSE keep("None", currency)

\* Lines 114-119.
Convert(top, total, avg, table) ==
    LET keep(e, c) == [raised |-> e, total_price |-> total, avg_price |-> avg,
                       currency |-> c]
    IN  IF top = <<>> THEN keep("IndexError", "")
        ELSE LET currency == top[1].currency
             IN  IF currency # BASE
                 THEN IF currency \notin DOMAIN table
                      THEN keep("KeyError", currency)
                      ELSE [raised |-> "None",
                            total_price |-> FloatMul(total, table[currency]),
                            avg_price |-> FloatMul(avg, table[currency]),
                            currency |-> BASE]
                 ELSE keep("None", currency)

\* AppendResult putting the result in front.
PrependResult(rs, r) == <<r>> \o rs

\* valuation_results.append(result)
AppendResult(rs, r) == Append(rs, r)

----------------------------------------------------------------------------
\* An uncaught exception ends the run.

Raise(e) == pc' = "terminated" /\ err' = e

\* The exception raised by open(file_path, 'r'), "None" when the file opens.
OpenForRead(file) == IF file.exists THEN "None" ELSE "FileNotFoundError"

----------------------------------------------------------------------------
\* __main__, lines 225-233.

\* currencies = load_currencies('currencies.csv')
LoadCurrencies ==
    /\ pc = "load_currencies"
    /\ IF OpenForRead(currencies_csv) # "None"
       THEN Raise(OpenForRead(currencies_csv)) /\ UNCHANGED currencies
       ELSE /\ currencies' = CurrencyDict(currencies_csv.rows)
            /\ pc' = "load_data"
            /\ UNCHANGED err
    /\ UNCHANGED <<files, data, matchings, results, locals>>

\* data = load_data('data.csv')
LoadData ==
    /\ pc = "load_data"
    /\ IF OpenForRead(data_csv) # "None"
       THEN Raise(OpenForRead(data_csv)) /\ UNCHANGED data
       ELSE /\ data' = ProductList(data_csv.rows)
            /\ pc' = "load_matchings"
            /\ UNCHANGED err
    /\ UNCHANGED <<files, currencies, matchings, results, locals>>

\* matchings = load_matchings('matchings.csv')
LoadMatchings ==
    /\ pc = "load_matchings"
    /\ IF OpenForRead(matchings_csv) # "None"
       THEN Raise(OpenForRead(matchings_csv)) /\ UNCHANGED matchings
       ELSE /\ matchings' = MatchingList(matchings_csv.rows)
            /\ pc' = "calculate_valuation"
            /\ UNCHANGED err
    /\ UNCHANGED <<files, currencies, data, results, locals>>

\* The call of calculate_valuation: line 101.
CalcEnter ==
    /\ pc = "calculate_valuation"
    /\ valuation_results' = <<>>
    /\ idx' = 1
    /\ pc' = "for_matching"
    /\ UNCHANGED <<files, loaded, results, products, top_products,
                   ignored_products_count, total_price, avg_price, err>>

\* One pass of the loop body, lines 103-112.
CalcSelect ==
    /\ pc = "for_matching"
    /\ idx <= Len(matchings)
    /\ LET matching == matchings[idx]
           sel == SelectProducts(data, matching)
           agg == Aggregate(sel.top_products, matching.top_priced_count)
       IN  /\ data' = sel.data
           /\ products' = sel.products
           /\ top_products' = sel.top_products
           /\ ignored_products_count' = sel.ignored_products_count
           /\ total_price' = agg.total_price
           /\ IF agg.raised # "None"
              THEN Raise(agg.raised) /\ UNCHANGED avg_price
              ELSE /\ avg_price' = agg.avg_price
                   /\ pc' = "convert"
                   /\ UNCHANGED err
    /\ UNCHANGED <<files, currencies, matchings, results, idx, valuation_results>>

\* The rest of the loop body, lines 114-128.
CalcConvert ==
    /\ pc = "convert"
    /\ LET conv == Convert(top_products, total_price, avg_price, currencies)
       IN  IF conv.raised # "None"
           THEN /\ Raise(conv.raised)
                /\ UNCHANGED <<total_price, avg_price, valuation_results, idx>>
           ELSE /\ total_price' = conv.total_price
                /\ avg_price' = conv.avg_price
                /\ valuation_results' =
                       AppendResult(valuation_results,
                                    Result(matchings[idx].matching_id,
                                           conv.total_price, conv.avg_price,
                                           conv.currency, ignored_products_count))
                /\ idx' = idx + 1
                /\ pc' = "for_matching"
                /\ UNCHANGED err
    /\ UNCHANGED <<files, loaded, results, products, top_products,
                   ignored_products_count>>

\* return valuation_results, line 130, bound to results at line 230.
CalcReturn ==
    /\ pc = "for_matching"
    /\ idx > Len(matchings)
    /\ results' = valuation_results
    /\ pc' = "save_results"
    /\ UNCHANGED <<files, loaded, locals, err>>

\* SaveResults run on every exit, as from a finally block: after an exception
\* it writes the results computed so far.
SaveResultsFinally ==
    /\ pc \in {"save_results", "terminated"}
    /\ top_products_csv' =
           CsvFile(ResultFields,
                   IF pc = "terminated" THEN valuation_results ELSE results)
    /\ pc' = IF pc = "terminated" THEN pc ELSE "test_load_currencies"
    /\ UNCHANGED <<currencies_csv, data_csv, matchings_csv, loaded, results,
                   locals, err>>

\* save_results('top_products.csv', results): header, then one row per result.
SaveResults ==
    /\ pc = "save_results"
    /\ top_products_csv' = CsvFile(ResultFields, results)
    /\ pc' = "test_load_currencies"
    /\ UNCHANGED <<currencies_csv, data_csv, matchings_csv, loaded, results,
                   locals, err>>

----------------------------------------------------------------------------
\* The rest of __main__: create_input_files before, run_unit_tests after.

CreateInputFiles ==
    /\ pc = "create_input_files"
    /\ currencies_csv' = CsvFile(CurrencyFields, FixtureCurrencies)
    /\ data_csv' = CsvFile(DataFields, FixtureData)
    /\ matchings_csv' = CsvFile(MatchingFields, FixtureMatchings)
    /\ pc' = "load_currencies"
    /\ UNCHANGED <<top_products_csv, loaded, results, locals, err>>

\* The exception a test's body raises, "None" when every assertion passes.
LoadCurrenciesTest(file) ==
    LET c == CurrencyDict(file.rows)
    IN  IF OpenForRead(file) # "None" THEN OpenForRead(file)
        ELSE IF Cardinality(DOMAIN c) # 3 THEN "AssertionError"
        ELSE IF {"GBP", "EU", "PLN"} # DOMAIN c THEN "KeyError"
        ELSE IF /\ c["GBP"] = Frac(24, 10)
                /\ c["EU"] = Frac(21, 10)
                /\ c["PLN"] = Float(1)
             THEN "None" ELSE "AssertionError"

LoadDataTest(file) ==
    LET d == ProductList(file.rows)
    IN  IF OpenForRead(file) # "None" THEN OpenForRead(file)
        ELSE IF Len(d) # 9 THEN "AssertionError"
        ELSE IF d[1] = Product(1, 1000, "GBP", 2, 3)
             THEN "None" ELSE "AssertionError"

LoadMatchingsTest(file) ==
    LET m == MatchingList(file.rows)
    IN  IF OpenForRead(file) # "None" THEN OpenForRead(file)
        ELSE IF Len(m) # 3 THEN "AssertionError"
        ELSE IF m[1] = Matching(1, 2) THEN "None" ELSE "AssertionError"

TestLoadCurrencies ==
    /\ pc = "test_load_currencies"
    /\ IF LoadCurrenciesTest(currencies_csv) # "None"
       THEN Raise(LoadCurrenciesTest(currencies_csv))
       ELSE pc' = "test_load_data" /\ UNCHANGED err
    /\ UNCHANGED <<files, loaded, results, locals>>

TestLoadData ==
    /\ pc = "test_load_data"
    /\ IF LoadDataTest(data_csv) # "None"
       THEN Raise(LoadDataTest(data_csv))
       ELSE pc' = "test_load_matchings" /\ UNCHANGED err
    /\ UNCHANGED <<files, loaded, results, locals>>

TestLoadMatchings ==
    /\ pc = "test_load_matchings"
    /\ IF LoadMatchingsTest(matchings_csv) # "None"
       THEN Raise(LoadMatchingsTest(matchings_csv))
       ELSE pc' = "test_save_results" /\ UNCHANGED err
    /\ UNCHANGED <<files, loaded, results, locals>>

\* test_save_results: save_results('top_products.csv', <its own rows>).
TestSaveResults ==
    /\ pc = "test_save_results"
    /\ top_products_csv' = CsvFile(ResultFields, TestResults)
    /\ pc' = "done"
    /\ UNCHANGED <<currencies_csv, data_csv, matchings_csv, loaded, results,
                   locals, err>>

----------------------------------------------------------------------------
\* Specifications.

InitMemory ==
    /\ currencies = NoCurrencies
    /\ data = <<>>
    /\ matchings = <<>>
    /\ results = <<>>
    /\ idx = 0
    /\ valuation_results = <<>>
    /\ products = <<>>
    /\ top_products = <<>>
    /\ ignored_products_count = 0
    /\ total_price = Float(0)
    /\ avg_price = Float(0)
    /\ err = "None"

\* The pipeline, entered at line 225 with any input files.
Init ==
    /\ \E f \in InputFiles :
           /\ currencies_csv = f[1]
           /\ data_csv = f[2]
           /\ matchings_csv = f[3]
    /\ top_products_csv = Absent
    /\ InitMemory
    /\ pc = "load_currencies"

Next ==
    \/ LoadCurrencies
    \/ LoadData
    \/ LoadMatchings
    \/ CalcEnter
    \/ CalcSelect
    \/ CalcConvert
    \/ CalcReturn
    \/ SaveResults

Spec == Init /\ [][Next]_vars

\* The script, entered at line 222 with whatever files the directory holds.
InitMain ==
    /\ \E f \in InputFiles :
           /\ currencies_csv = f[1]
           /\ data_csv = f[2]
           /\ matchings_csv = f[3]
    /\ top_products_csv \in OutputFiles
    /\ InitMemory
    /\ pc = "create_input_files"

NextMain ==
    \/ CreateInputFiles
    \/ Next
    \/ TestLoadCurrencies
    \/ TestLoadData
    \/ TestLoadMatchings
    \/ TestSaveResults

SpecMain == InitMain /\ [][NextMain]_vars

TypeOK ==
    /\ pc \in {"create_input_files", "load_currencies", "load_data",
               "load_matchings", "calculate_valuation", "for_matching",
               "convert", "save_results", "test_load_currencies",
               "test_load_data", "test_load_matchings", "test_save_results",
               "done", "terminated"}
    /\ err \in {"None", "FileNotFoundError", "ZeroDivisionError", "IndexError",
                "KeyError", "AssertionError"}
    /\ (pc = "terminated") = (err # "None")

----------------------------------------------------------------------------
\* Vocabulary of the properties, defined on the inputs alone.

\* calculate_valuation has returned.
Returned ==
    pc \in {"save_results", "test_load_currencies", "test_load_data",
            "test_load_matchings", "test_save_results", "done"}

InCalc == pc \in {"calculate_valuation", "for_matching", "convert"}

\* Positions in data of the products of a matching group.
Group(matching_id) == { j \in DOMAIN data : data[j].matching_id = matching_id }

GroupSize(matching_id) == Cardinality(Group(matching_id))

\* Product j is ranked before product k: greater extended price, or the same
\* extended price and earlier in the input.
RankedBefore(j, k) ==
    \/ data[j].price * data[j].quantity > data[k].price * data[k].quantity
    \/ /\ data[j].price * data[j].quantity = data[k].price * data[k].quantity
       /\ j < k

\* The 1-based rank of product j within its group.
Rank(j) ==
    1 + Cardinality({ k \in Group(data[j].matching_id) : RankedBefore(k, j) })

RECURSIVE SumOver(_)
SumOver(S) ==
    IF S = {} THEN 0
    ELSE LET j == CHOOSE k \in S : TRUE
         IN  data[j].price * data[j].quantity + SumOver(S \ {j})

\* y = x * r, on rationals.
IsProduct(y, x, r) == y.n * x.d * r.d = x.n * r.n * y.d

BadMatching(m) == m.top_priced_count = 0 \/ GroupSize(m.matching_id) = 0

----------------------------------------------------------------------------
\* C1: after a complete run of the script, top_products.csv holds exactly the
\* rows calculate_valuation computed.
C1_OutputHoldsComputedRows ==
    pc = "done" => top_products_csv = CsvFile(ResultFields, results)

\* C2: every produced result has ignored_products_count equal to the size of
\* its matching group minus top_priced_count, and never negative.
C2_IgnoredCountNeverNegative ==
    \A i \in DOMAIN valuation_results :
        /\ valuation_results[i].ignored_products_count =
               GroupSize(matchings[i].matching_id) - matchings[i].top_priced_count
        /\ valuation_results[i].ignored_products_count >= 0

\* C3: calculate_valuation returns one result per matching, in the order of
\* matchings, the i-th result carrying the i-th matching's matching_id; and on
\* inputs where every matching has 1 <= top_priced_count <= group size and
\* every product's currency has a ratio, it does return.
ValidInputs ==
    /\ \A i \in DOMAIN matchings :
           /\ matchings[i].top_priced_count >= 1
           /\ matchings[i].top_priced_count <= GroupSize(matchings[i].matching_id)
    /\ \A j \in DOMAIN data : data[j].currency \in DOMAIN currencies

C3_OneResultPerMatching ==
    /\ Returned =>
           /\ Len(results) = Len(matchings)
           /\ \A i \in DOMAIN matchings :
                  results[i].matching_id = matchings[i].matching_id
    /\ (err \in {"ZeroDivisionError", "IndexError", "KeyError"}) => ~ValidInputs

C3_Witness ==
    /\ Returned
    /\ Len(results) = 2
    /\ results[1].matching_id = 2
    /\ results[2].matching_id = 1

\* C4: total_price and avg_price are multiplied by the ratio of the first top
\* product's currency exactly when that currency is not PLN, and every
\* produced result has currency PLN.
C4_ConversionIffForeign ==
    /\ [][(pc = "convert" /\ pc' = "for_matching") =>
            LET c == top_products[1].currency
            IN  IF c # "PLN"
                THEN /\ IsProduct(total_price', total_price, currencies[c])
                     /\ IsProduct(avg_price', avg_price, currencies[c])
                ELSE /\ total_price' = total_price
                     /\ avg_price' = avg_price]_vars
    /\ [](\A i \in DOMAIN valuation_results :
              /\ valuation_results[i].currency = "PLN"
              /\ (pc = "for_matching" /\ i = idx - 1) =>
                     /\ valuation_results[i].total_price = total_price
                     /\ valuation_results[i].avg_price = avg_price)

C4_Witness ==
    /\ pc = "for_matching"
    /\ Len(valuation_results) = 1
    /\ Len(top_products) = 2
    /\ top_products[1].currency = "GBP"
    /\ top_products[2].currency = "PLN"
    /\ valuation_results[1].total_price # Float(SumExtended(top_products))

\* C5: no result row is produced for a matching whose top_priced_count
\* exceeds the number of products of its group.
C5_ExcessTopCountRejected ==
    \A i \in DOMAIN valuation_results :
        matchings[i].top_priced_count <= GroupSize(matchings[i].matching_id)

\* C6: when a matching has top_priced_count = 0 or an empty group, no result
\* row is produced for it and calculate_valuation does not return; the loop
\* body raises for such a matching: ZeroDivisionError at the division when
\* top_priced_count = 0, IndexError at top_products[0] otherwise.
C6_ZeroOrEmptyFails ==
    /\ [](\A i \in DOMAIN valuation_results : ~BadMatching(matchings[i]))
    /\ []((\E i \in DOMAIN matchings : BadMatching(matchings[i])) => ~Returned)
    /\ [][((/\ pc = "for_matching"
             /\ idx <= Len(matchings)
             /\ matchings[idx].top_priced_count = 0) =>
                (pc' = "terminated" /\ err' = "ZeroDivisionError"))
           /\
           ((pc = "convert" /\ BadMatching(matchings[idx])) =>
                (pc' = "terminated" /\ err' = "IndexError"))]_vars

C6_Witness ==
    /\ pc = "terminated"
    /\ Len(valuation_results) = 1
    /\ \/ err = "ZeroDivisionError" /\ products # <<>>
       \/ err = "IndexError" /\ matchings[idx].top_priced_count > 0

\* C7: when some loaded product has a currency without a ratio,
\* calculate_valuation does not return; stated for the products that are in
\* the top set of some matching, at any rank.
C7_UnknownCurrencyFails ==
    Returned =>
        \A i \in DOMAIN matchings :
            \A j \in Group(matchings[i].matching_id) :
                Rank(j) <= matchings[i].top_priced_count =>
                    data[j].currency \in DOMAIN currencies

\* C8: a run ended by an exception has written nothing to top_products.csv.
C8_NoOutputOnFailure ==
    pc = "terminated" => top_products_csv = Absent

C8_Witness ==
    /\ pc = "terminated"
    /\ err \in {"ZeroDivisionError", "IndexError", "KeyError"}
    /\ Len(valuation_results) >= 1
    /\ top_products_csv = Absent

\* C9: products is the matching's group ordered by extended price descending,
\* equal extended prices in input order; top_products is its first
\* top_priced_count elements; total_price before conversion is the sum of the
\* extended prices of top_products.
C9_TopSetAndTotal ==
    pc = "convert" =>
        LET m == matchings[idx]
            g == Group(m.matching_id)
            n == IF m.top_priced_count < Cardinality(g)
                 THEN m.top_priced_count ELSE Cardinality(g)
        IN  /\ Len(products) = Cardinality(g)
            /\ \A j \in g : products[Rank(j)] = data[j]
            /\ top_products = [i \in 1 .. n |-> products[i]]
            /\ total_price = Float(SumOver({ j \in g : Rank(j) <= n }))

C9_Witness ==
    /\ pc = "convert"
    /\ Len(products) = 2
    /\ Len(top_products) = 1
    /\ products[1].price # products[2].price
    /\ ExtendedPrice(products[1]) = ExtendedPrice(products[2])
    /\ total_price = Float(2)

\* C10: calculate_valuation changes none of data, matchings and currencies,
\* whether it returns or raises.
C10_InputsUnchanged ==
    [][InCalc => UNCHANGED <<data, matchings, currencies>>]_vars

C10_Witness ==
    /\ pc = "convert"
    /\ Len(data) = 2
    /\ products = <<data[2], data[1]>>

====
